---- MODULE Spec2Model ----
(***************************************************************************)
(* Detrended Price Oscillator of jesse/indicators/dpo.py.                  *)
(*                                                                         *)
(* The engine _dpo works on numpy float64 arrays.  Floating point is       *)
(* modelled as a binary format with MantBits bits of precision, exponents  *)
(* 0..MaxExp, round-to-nearest-even, overflow to +-Inf and a NaN (float64  *)
(* is the same format with 53 bits).  The unit of the format is 1, so the  *)
(* finite values are the integers m * 2^e with m < 2^MantBits, e <= MaxExp.*)
(* Arrays live in a heap `mem` of buffers and the locals of the Python     *)
(* frame hold buffer ids, so that aliasing and in-place writes are visible.*)
(***************************************************************************)
EXTENDS Integers, Sequences, FiniteSets, TLC

\* ------------------------------------------------------------ bounds
MaxLen == 5
MaxPeriod == 3
MantBits == 6
MaxExp == 1

\* ------------------------------------------------- float64 arithmetic
Pow2(n) == 2 ^ n

\* Encoding of the non-finite values: beyond the largest finite magnitude.
Inf == Pow2(MantBits + MaxExp)
NaN == Inf + 1
MaxFinite == (Pow2(MantBits) - 1) * Pow2(MaxExp)

IsNaN(x) == x = NaN
IsInf(x) == x = Inf \/ x = -Inf
IsFinite(x) == x > -Inf /\ x < Inf

Abs(x) == IF x < 0 THEN -x ELSE x
Min(a, b) == IF a < b THEN a ELSE b
Max(a, b) == IF a > b THEN a ELSE b

\* a / b (a >= 0, b > 0) rounded to the nearest integer, ties to even.
RoundHalfEven(a, b) ==
  LET q == a \div b
      r == a % b
  IN  IF 2 * r < b THEN q
      ELSE IF 2 * r > b THEN q + 1
      ELSE IF q % 2 = 0 THEN q ELSE q + 1

\* The spacing of the format around a / d: the least power of two q with
\* a / d < 2^MantBits * q.
RECURSIVE Quantum(_, _, _)
Quantum(a, d, q) ==
  IF a < Pow2(MantBits) * q * d THEN q ELSE Quantum(a, d, 2 * q)

\* The float nearest to the rational n / d (d > 0); overflow gives +-Inf.
FRound(n, d) ==
  LET a == Abs(n)
      q == Quantum(a, d, 1)
      v == RoundHalfEven(a, d * q) * q
  IN  IF v >= Inf THEN (IF n < 0 THEN -Inf ELSE Inf)
      ELSE (IF n < 0 THEN -v ELSE v)

FNeg(x) == IF IsNaN(x) THEN NaN ELSE -x

FAdd(x, y) ==
  IF IsNaN(x) \/ IsNaN(y) THEN NaN
  ELSE IF IsInf(x) THEN (IF IsInf(y) /\ y # x THEN NaN ELSE x)
  ELSE IF IsInf(y) THEN y
  ELSE FRound(x + y, 1)

FSub(x, y) == FAdd(x, FNeg(y))

\* x / p for a float x and the integer p (converted exactly).
FDiv(x, p) ==
  IF IsNaN(x) THEN NaN
  ELSE IF p = 0 THEN (IF x = 0 THEN NaN ELSE IF x > 0 THEN Inf ELSE -Inf)
  ELSE IF IsInf(x) THEN (IF p > 0 THEN x ELSE -x)
  ELSE FRound(IF p > 0 THEN x ELSE -x, Abs(p))

\* --------------------------------------------------- numpy primitives
\* A slice bound k of a sequence of length L, as Python clips it.
NormIdx(k, L) == IF k < 0 THEN Max(k + L, 0) ELSE Min(k, L)

\* a[lo:hi] with lo, hi already clipped (0-based, hi exclusive).
Slice(a, lo, hi) == IF hi > lo THEN SubSeq(a, lo + 1, hi) ELSE <<>>

RECURSIVE Zeros(_)
Zeros(n) == IF n <= 0 THEN <<>> ELSE Append(Zeros(n - 1), 0)

\* Shapes (la,) and (lb,) broadcast together.
Broadcastable(la, lb) == la = lb \/ la = 1 \/ lb = 1
BroadcastLen(la, lb) == IF la = lb THEN la ELSE IF la = 1 THEN lb ELSE la
BAt(arr, idx) == IF Len(arr) = 1 THEN arr[1] ELSE arr[idx]

\* Mutant of Roll: the series is rotated towards lower indices.
Roll_backward(a, s) ==
  LET n == Len(a) IN [k \in 1..n |-> a[((k - 1 + s) % n) + 1]]

\* np.roll(a, s): out[(i + s) % n] = a[i].
Roll(a, s) ==
  LET n == Len(a) IN [k \in 1..n |-> a[((k - 1 - s) % n) + 1]]


\* ------------------------------------------------ the stages of _dpo
\* line 10
Shift(period) == (period \div 2) + 1

\* lines 14-15: temp = zeros(len + 1); temp[1:] = source
TempOf(source) == <<0>> \o source

\* lines 17-18, one iteration: cumsum[i] = cumsum[i-1] + temp[i]
CumsumIter(cs, temp, i) == [cs EXCEPT ![i + 1] = FAdd(cs[i], temp[i + 1])]

\* lines 16-18, the whole loop from iteration i on
RECURSIVE CumsumFrom(_, _, _)
CumsumFrom(cs, temp, i) ==
  IF i < Len(cs) THEN CumsumFrom(CumsumIter(cs, temp, i), temp, i + 1) ELSE cs

\* line 19: the three slices sma[period-1:], cumsum[period:], cumsum[:-period]
SmaTargetLo(n, period) == NormIdx(period - 1, n)
SmaHead(cs, period) == Slice(cs, NormIdx(period, Len(cs)), Len(cs))
SmaTail(cs, period) == Slice(cs, 0, NormIdx(-period, Len(cs)))

\* line 19: the two operands broadcast and the result fits the target slice
SmaShapesOk(n, cs, period) ==
  LET la == Len(SmaHead(cs, period))
      lb == Len(SmaTail(cs, period))
      lt == n - SmaTargetLo(n, period)
  IN  /\ Broadcastable(la, lb)
      /\ (BroadcastLen(la, lb) = lt \/ BroadcastLen(la, lb) = 1)

\* Mutant of SmaRhs: the window sum is divided by period + 1.
SmaRhs_divisor(cs, period) ==
  LET a == SmaHead(cs, period)
      b == SmaTail(cs, period)
  IN  [k \in 1..BroadcastLen(Len(a), Len(b)) |->
         FDiv(FSub(BAt(a, k), BAt(b, k)), period + 1)]

\* line 19: (cumsum[period:] - cumsum[:-period]) / period
SmaRhs(cs, period) ==
  LET a == SmaHead(cs, period)
      b == SmaTail(cs, period)
  IN  [k \in 1..BroadcastLen(Len(a), Len(b)) |->
         FDiv(FSub(BAt(a, k), BAt(b, k)), period)]

\* line 19: sma[period-1:] = rhs
SmaAssign(sma, cs, period) ==
  LET lo == SmaTargetLo(Len(sma), period)
      rhs == SmaRhs(cs, period)
  IN  [k \in 1..Len(sma) |-> IF k > lo THEN BAt(rhs, k - lo) ELSE sma[k]]

\* line 23: shifted_source - sma
Subtract(a, b) == [k \in 1..Len(a) |-> FSub(a[k], b[k])]

\* Mutant of Cutoff: the shift is subtracted instead of added.
Cutoff_minus(period, shift) == period - 1 - shift

\* line 26: the stop of the masked slice dpo[:period-1+shift]
Cutoff(period, shift) == period - 1 + shift

\* Mutant of MaskPrefix: the prefix is dropped instead of set to NaN.
MaskPrefix_drop(d, stop) == Slice(d, NormIdx(stop, Len(d)), Len(d))

\* line 26: d[:stop] = nan
MaskPrefix(d, stop) ==
  LET hi == NormIdx(stop, Len(d))
  IN  [k \in 1..Len(d) |-> IF k <= hi THEN NaN ELSE d[k]]

\* _dpo as a function of its arguments (for periods whose shapes fit)
Dpo(source, period) ==
  LET n == Len(source)
      cs == CumsumFrom(Zeros(n + 1), TempOf(source), 1)
      sma == SmaAssign(Zeros(n), cs, period)
      d == Subtract(Roll(source, Shift(period)), sma)
  IN  MaskPrefix(d, Cutoff(period, Shift(period)))

\* --------------------------------------------- collaborators of dpo()
\* restrict_window: the trailing window the engine needs for its last value
WindowSize(period) == Cutoff(period, Shift(period)) + 1

SliceCandles(c, period, sequential) ==
  LET w == WindowSize(period)
  IN  IF ~sequential /\ w >= 1 /\ Len(c) > w
      THEN SubSeq(c, Len(c) - w + 1, Len(c)) ELSE c

\* align_length: left-pad res with NaN to the length of candles
SameLength(c, res) == [k \in 1..(Len(c) - Len(res)) |-> NaN] \o res

\* ------------------------------------------------------------- state
VARIABLES candles0, period, sequential, pc, mem, ref, arg, shift, i, ret, err

vars == <<candles0, period, sequential, pc, mem, ref, arg, shift, i, ret, err>>

\* The inputs explored.
PriceSet == {1, 2, Pow2(MantBits) - 1, MaxFinite, NaN}
PeriodSet == {-3, 0} \cup (1..MaxPeriod)
SeriesUpTo(n) == UNION {[1..k -> PriceSet] : k \in 0..n}
ScenarioPrices == [k \in 1..10 |-> k]
ScenarioPeriod == 5

NoRef == [candles |-> 0, source |-> 0, sma |-> 0, temp |-> 0, cumsum |-> 0,
          shifted_source |-> 0, dpo |-> 0, res |-> 0]
NoRet == [kind |-> "none", series |-> <<>>, scalar |-> 0]

Init ==
  /\ \/ candles0 \in SeriesUpTo(MaxLen) /\ period \in PeriodSet
     \/ candles0 = ScenarioPrices /\ period = ScenarioPeriod
  /\ sequential \in BOOLEAN
  /\ pc = "slice"
  /\ mem = <<candles0>>
  /\ ref = NoRef
  /\ arg = <<>>
  /\ shift = 0
  /\ i = 0
  /\ ret = NoRet
  /\ err = "none"

\* line 44: candles = slice_candles(candles, sequential)
DoSlice ==
  /\ pc = "slice"
  /\ LET c == SliceCandles(mem[1], period, sequential)
     IN  IF c = mem[1]
         THEN /\ ref' = [ref EXCEPT !.candles = 1]
              /\ mem' = mem
         ELSE /\ ref' = [ref EXCEPT !.candles = Len(mem) + 1]
              /\ mem' = Append(mem, c)
  /\ pc' = "source"
  /\ UNCHANGED <<candles0, period, sequential, arg, shift, i, ret, err>>

\* line 45: source = get_candle_source(candles, source_type)
DoSource ==
  /\ pc = "source"
  /\ ref' = [ref EXCEPT !.source = ref.candles]
  /\ pc' = "enter"
  /\ UNCHANGED <<candles0, period, sequential, mem, arg, shift, i, ret, err>>

\* line 46 into line 10: the call, shift = period // 2 + 1
Enter ==
  /\ pc = "enter"
  /\ arg' = mem[ref.source]
  /\ shift' = Shift(period)
  /\ pc' = "alloc"
  /\ UNCHANGED <<candles0, period, sequential, mem, ref, i, ret, err>>

\* lines 13-16: sma, temp and cumsum are fresh arrays
Alloc ==
  /\ pc = "alloc"
  /\ LET src == mem[ref.source]
         k == Len(mem)
     IN  /\ mem' = mem \o <<Zeros(Len(src)), TempOf(src), Zeros(Len(src) + 1)>>
         /\ ref' = [ref EXCEPT !.sma = k + 1, !.temp = k + 2, !.cumsum = k + 3]
  /\ i' = 1
  /\ pc' = "loop"
  /\ UNCHANGED <<candles0, period, sequential, arg, shift, ret, err>>

\* lines 17-18: one iteration of the loop over range(1, len(cumsum))
CumsumStep ==
  /\ pc = "loop"
  /\ i < Len(mem[ref.cumsum])
  /\ mem' = [mem EXCEPT ![ref.cumsum] = CumsumIter(@, mem[ref.temp], i)]
  /\ i' = i + 1
  /\ UNCHANGED <<candles0, period, sequential, pc, ref, arg, shift, ret, err>>

\* line 19, the shapes fit
DoSma ==
  /\ pc = "loop"
  /\ i >= Len(mem[ref.cumsum])
  /\ SmaShapesOk(Len(mem[ref.sma]), mem[ref.cumsum], period)
  /\ mem' = [mem EXCEPT ![ref.sma] = SmaAssign(@, mem[ref.cumsum], period)]
  /\ pc' = "roll"
  /\ UNCHANGED <<candles0, period, sequential, ref, arg, shift, i, ret, err>>

\* line 19, the shapes do not fit: numpy raises ValueError
DoSmaRaise ==
  /\ pc = "loop"
  /\ i >= Len(mem[ref.cumsum])
  /\ ~SmaShapesOk(Len(mem[ref.sma]), mem[ref.cumsum], period)
  /\ err' = "ValueError"
  /\ pc' = "raised"
  /\ UNCHANGED <<candles0, period, sequential, mem, ref, arg, shift, i, ret>>

\* line 22: shifted_source = np.roll(source, shift), a fresh array
DoRoll ==
  /\ pc = "roll"
  /\ mem' = Append(mem, Roll(mem[ref.source], shift))
  /\ ref' = [ref EXCEPT !.shifted_source = Len(mem) + 1]
  /\ pc' = "sub"
  /\ UNCHANGED <<candles0, period, sequential, arg, shift, i, ret, err>>

\* line 23: dpo = shifted_source - sma, a fresh array
DoSubtract ==
  /\ pc = "sub"
  /\ mem' = Append(mem, Subtract(mem[ref.shifted_source], mem[ref.sma]))
  /\ ref' = [ref EXCEPT !.dpo = Len(mem) + 1]
  /\ pc' = "mask"
  /\ UNCHANGED <<candles0, period, sequential, arg, shift, i, ret, err>>

\* Mutant of MaskTarget: the mask is written to the argument.
MaskTarget_source(r) == r.source

\* line 26: the array the mask is written to
MaskTarget(r) == r.dpo

\* line 26: dpo[:period-1+shift] = np.nan, in place
DoMask ==
  /\ pc = "mask"
  /\ mem' = [mem EXCEPT ![MaskTarget(ref)] = MaskPrefix(@, Cutoff(period, shift))]
  /\ pc' = "return"
  /\ UNCHANGED <<candles0, period, sequential, ref, arg, shift, i, ret, err>>

\* line 28 back into line 46: res = _dpo(source, period)
DoReturn ==
  /\ pc = "return"
  /\ ref' = [ref EXCEPT !.res = ref.dpo]
  /\ pc' = "result"
  /\ UNCHANGED <<candles0, period, sequential, mem, arg, shift, i, ret, err>>

\* line 48, sequential: same_length(candles, res)
ResultSeries ==
  /\ pc = "result"
  /\ sequential
  /\ ret' = [kind |-> "series",
             series |-> SameLength(mem[ref.candles], mem[ref.res]),
             scalar |-> 0]
  /\ pc' = "done"
  /\ UNCHANGED <<candles0, period, sequential, mem, ref, arg, shift, i, err>>

\* line 48, not sequential: res[-1]
ResultLast ==
  /\ pc = "result"
  /\ ~sequential
  /\ Len(mem[ref.res]) > 0
  /\ ret' = [kind |-> "scalar", series |-> <<>>,
             scalar |-> mem[ref.res][Len(mem[ref.res])]]
  /\ pc' = "done"
  /\ UNCHANGED <<candles0, period, sequential, mem, ref, arg, shift, i, err>>

\* line 48, not sequential, empty res: res[-1] raises IndexError
ResultLastRaise ==
  /\ pc = "result"
  /\ ~sequential
  /\ Len(mem[ref.res]) = 0
  /\ err' = "IndexError"
  /\ pc' = "raised"
  /\ UNCHANGED <<candles0, period, sequential, mem, ref, arg, shift, i, ret>>

Next ==
  \/ DoSlice \/ DoSource \/ Enter \/ Alloc \/ CumsumStep \/ DoSma \/ DoSmaRaise
  \/ DoRoll \/ DoSubtract \/ DoMask \/ DoReturn
  \/ ResultSeries \/ ResultLast \/ ResultLastRaise

Spec == Init /\ [][Next]_vars

\* The engine has returned: res is bound to its output.
Returned == pc \in {"result", "done"} \/ (pc = "raised" /\ err = "IndexError")

\* The actions compute what the function Dpo computes, as a whole and
\* entry by entry.
StepsAgree ==
  Returned => /\ mem[ref.res] = Dpo(arg, period)
              /\ \A k \in 1..Len(arg) : mem[ref.res][k] = Dpo(arg, period)[k]


\* ---------------------------------------------- vocabulary of claims
\* The engine is past line 19 without raising.
PastSma == pc \in {"roll", "sub", "mask", "return"} \/ Returned

\* The engine's argument and its returned series.
N == Len(arg)
Out == mem[ref.res]

\* 0-based indices of a length-n series at or past P - 1 + P//2 + 1.
DefinedIdx(n, P) == {k \in 0..(n - 1) : k >= P - 1 + (P \div 2) + 1}
UndefinedIdx(n, P) == {k \in 0..(n - 1) : k < P - 1 + (P \div 2) + 1}

AllFinite(s) == \A k \in 1..Len(s) : IsFinite(s[k])
FinitePrices == {x \in PriceSet : IsFinite(x)}

\* prices[lo] + ... + prices[hi] (0-based), summed left to right in floats.
RECURSIVE WindowSum(_, _, _)
WindowSum(s, lo, hi) ==
  IF hi < lo THEN 0 ELSE FAdd(WindowSum(s, lo, hi - 1), s[hi + 1])

\* prices[i - (P//2+1)] - mean(prices[i-P+1 .. i]) in floats.
LaggedMinusMean(s, P, k) ==
  FSub(s[k - ((P \div 2) + 1) + 1], FDiv(WindowSum(s, k - P + 1, k), P))

\* C1: for every period P >= 1, every series of (finite) prices and every
\* defined index i the engine returns
\* Output[i] = prices[i - (P//2+1)] - mean(prices[i-P+1 .. i]).
C1_DefinedFormula ==
  (Returned /\ period >= 1 /\ AllFinite(arg)) =>
    \A k \in DefinedIdx(N, period) : Out[k + 1] = LaggedMinusMean(arg, period, k)

\* C2: for finite prices the first min(N, P-1+P//2+1) outputs are NaN and
\* every output at an index >= P-1+P//2+1 is not NaN.
C2_UndefinedPrefix ==
  (Returned /\ period >= 1 /\ AllFinite(arg)) =>
    /\ Len(Out) = N
    /\ \A k \in UndefinedIdx(N, period) : IsNaN(Out[k + 1])
    /\ \A k \in DefinedIdx(N, period) : ~IsNaN(Out[k + 1])

\* C3: for every period P >= 1 the engine returns (line 19 never raises) and
\* the output series has exactly the length of the input series, also when
\* the input is too short for a defined value.
C3_LengthPreserved ==
  period >= 1 =>
    /\ err # "ValueError"
    /\ Returned => Len(Out) = N

C3_Witness ==
  /\ Returned /\ period >= 1
  /\ N > 0 /\ DefinedIdx(N, period) = {}
  /\ Len(Out) = N

\* C4: whenever period < 1 the computation fails with InvalidPeriod and
\* produces no output series.
C4_InvalidPeriod ==
  period < 1 =>
    /\ ~PastSma
    /\ pc = "raised" => err = "InvalidPeriod"

\* C5: for every period P >= 1 and every series shorter than P the engine
\* does not fail and returns a series of the same length, all NaN.
C5_ShortSeries ==
  (period >= 1 /\ pc \notin {"slice", "source", "enter"} /\ N < period) =>
    /\ err # "ValueError"
    /\ Returned => /\ Len(Out) = N
                   /\ \A k \in 1..Len(Out) : IsNaN(Out[k])

C5_Witness ==
  /\ Returned /\ period >= 1
  /\ N > 0 /\ N < period
  /\ \A k \in 1..Len(Out) : IsNaN(Out[k])


\* C6: with sequential = false dpo returns one value, the last element of
\* the series the engine computes over the full, unrestricted history.
C6_LastOfFull ==
  (pc = "done" /\ ~sequential /\ period >= 1 /\ AllFinite(candles0)) =>
    /\ ret.kind = "scalar"
    /\ ret.scalar = Dpo(candles0, period)[Len(candles0)]

\* The locals of _dpo that name arrays the engine creates.
EngineLocals == {"sma", "temp", "cumsum", "shifted_source", "dpo"}

\* C7: the engine never mutates its input: the caller's series holds what
\* it held at the call, and sma, temp, cumsum, the shifted series and dpo are
\* arrays of the engine's own.
C7_InputUnchanged ==
  (pc \notin {"slice", "source", "enter"}) =>
    /\ mem[ref.source] = arg
    /\ mem[1] = candles0
    /\ \A v \in EngineLocals : ref[v] # 0 => ref[v] > ref.candles

C7_Witness ==
  /\ pc = "return" /\ period >= 1
  /\ N > 0
  /\ \E k \in 1..N : IsNaN(mem[ref.dpo][k]) /\ ~IsNaN(arg[k])
  /\ mem[ref.source] = arg

\* C8: for P >= 1, shift <= cutoff, so at every index the mask leaves
\* defined the lagged index i - shift is >= 0 and the rolled series holds
\* prices[i - shift] there: the wrapped entries are all masked.
C8_NoWrapInDefined ==
  (period >= 1 /\ ref.shifted_source # 0) =>
    /\ shift = (period \div 2) + 1
    /\ shift <= Cutoff(period, shift)
    /\ \A k \in 0..(N - 1) :
         k >= NormIdx(Cutoff(period, shift), N) =>
           /\ k - shift >= 0
           /\ mem[ref.shifted_source][k + 1] = arg[k - shift + 1]

C8_Witness ==
  /\ period >= 1 /\ Returned
  /\ N > Cutoff(period, shift)
  /\ mem[ref.shifted_source][1] = arg[N - shift + 1]
  /\ IsNaN(Out[1]) /\ ~IsNaN(Out[N])

\* Two series agree on the window i-P+1 .. i and on the lagged index.
AgreeAt(a, b, P, k) ==
  /\ \A m \in (k - P + 1)..k : a[m + 1] = b[m + 1]
  /\ a[k - ((P \div 2) + 1) + 1] = b[k - ((P \div 2) + 1) + 1]

\* C9: two series of (finite) prices of the same length that agree on the
\* window i-P+1 .. i and on index i - (P//2+1) give equal outputs at the
\* defined index i.
C9_BoundedWindow ==
  (Returned /\ period >= 1 /\ AllFinite(arg)) =>
    \A other \in [1..N -> FinitePrices] :
      \A k \in DefinedIdx(N, period) :
        AgreeAt(arg, other, period, k) => Dpo(other, period)[k + 1] = Out[k + 1]

\* The offsets c tried, and the series prices[i] + c.
OffsetSet == {-1, 1, 2}
Offset(s, c) == [k \in 1..Len(s) |-> FAdd(s[k], c)]
IsConstant(s) == \A k \in 1..Len(s) : s[k] = s[1]

\* The integer x is a finite value of the float format.
Representable(x) == x > -Inf /\ x < Inf /\ FRound(x, 1) = x

\* C10: the defined outputs are the same for prices and for prices + c
\* (finite prices, each prices[i] + c a float), and a constant series gives 0
\* at every defined index.
C10_OffsetInvariant ==
  (Returned /\ period >= 1 /\ AllFinite(arg)) =>
    /\ \A c \in OffsetSet :
         (\A k \in 1..N : Representable(arg[k] + c)) =>
           \A k \in DefinedIdx(N, period) :
             Dpo(Offset(arg, c), period)[k + 1] = Out[k + 1]
    /\ IsConstant(arg) => \A k \in DefinedIdx(N, period) : Out[k + 1] = 0

\* s[1] + ... + s[k] as an integer.
RECURSIVE IntPrefix(_, _)
IntPrefix(s, k) == IF k = 0 THEN 0 ELSE IntPrefix(s, k - 1) + s[k]

\* On the series s no sum, quotient or difference the formula of the
\* oscillator needs has to be rounded: the prefix sums, and at every defined
\* index the window sum, the mean and the lagged price less the mean, are
\* values of the float format.
ExactInput(s, P) ==
  /\ AllFinite(s)
  /\ \A k \in 0..Len(s) : Representable(IntPrefix(s, k))
  /\ \A k \in DefinedIdx(Len(s), P) :
       LET w == IntPrefix(s, k + 1) - IntPrefix(s, k + 1 - P)
       IN  /\ Representable(w)
           /\ w % P = 0
           /\ Representable(w \div P)
           /\ Representable(s[k - ((P \div 2) + 1) + 1] - (w \div P))

\* C10 as amended: when no operation rounds or overflows on prices nor on
\* prices + c, the defined outputs of the two runs are equal, and a constant
\* series gives 0 at every defined index.
C10_OffsetInvariantExact ==
  (Returned /\ period >= 1 /\ ExactInput(arg, period)) =>
    /\ \A c \in OffsetSet :
         (/\ \A k \in 1..N : Representable(arg[k] + c)
          /\ ExactInput(Offset(arg, c), period)) =>
           \A k \in DefinedIdx(N, period) :
             Dpo(Offset(arg, c), period)[k + 1] = Out[k + 1]
    /\ IsConstant(arg) => \A k \in DefinedIdx(N, period) : Out[k + 1] = 0

C10_Witness ==
  /\ Returned /\ period >= 2 /\ ExactInput(arg, period)
  /\ DefinedIdx(N, period) # {}
  /\ ~IsConstant(arg)
  /\ \E c \in OffsetSet :
       /\ \A k \in 1..N : Representable(arg[k] + c)
       /\ ExactInput(Offset(arg, c), period)
       /\ Dpo(Offset(arg, c), period)[N] = Out[N]
       /\ Out[N] # 0

====
